---- MODULE Spec2Model ----
(***************************************************************************)
(* Hydro-thermal dispatch over twelve months                               *)
(* (src/despacho_hidrotermico.py, otimizacao_despacho_anual_com_afluencias)*)
(*                                                                         *)
(* Units.  Energies are integers in MWh.  Powers are held as integer       *)
(* multiples of 1/horas_mes MW, i.e. as the energy the power delivers in   *)
(* one month: Pot(50) is 50 MW.  With this unit the source's               *)
(* "energia / horas_mes" and "potencia * horas_mes" are exact.  The one    *)
(* irrational quantity, the total generation that solves the quadratic     *)
(* power balance, is resolved on a 1 MW grid: the balance residual is >= 0 *)
(* and becomes negative one grid step below.                               *)
(***************************************************************************)
EXTENDS Integers, Sequences, FiniteSets

Min(a, b) == IF a <= b THEN a ELSE b
Max(a, b) == IF a >= b THEN a ELSE b

\* line 97: horas_mes = 720
horas_mes == 720

\* number of months in demandas_mensais / afluencias_mensais (lines 39-68)
NumMeses == 12

\* a power of mw MW in the model's unit
Pot(mw) == mw * horas_mes

(***************************************************************************)
(* Parameter sets.  Fonte is the literal parameter block of the source     *)
(* (lines 21-68); the others replace the reservoir size and the two        *)
(* monthly tables, to reach reservoir-limited, spilling and infeasible     *)
(* months.  coef_perda = 0.0001 is held as its inverse perda_den.          *)
(***************************************************************************)
Fonte ==
    [ nome |-> "Fonte",
      p_hidro_min |-> 50, p_hidro_max |-> 400,
      p_termo_min |-> 100, p_termo_max |-> 600,
      perda_den |-> 10000, limite_transmissao |-> 800,
      custo_termo |-> 50,
      volume_inicial |-> 50, volume_min |-> 20, volume_max |-> 95,
      capacidade_reservatorio |-> 5000,
      demandas_mensais |-> <<520, 510, 480, 450, 420, 400, 410, 430, 460, 490, 520, 540>>,
      afluencias_mensais |-> <<800, 780, 720, 650, 550, 480, 500, 550, 650, 750, 800, 850>> ]

\* a reservoir large enough for the hydro plant to run at p_hidro_max
Amplo ==
    [ Fonte EXCEPT !.nome = "Amplo",
      !.capacidade_reservatorio = 400000,
      !.demandas_mensais = <<500, 450, 400, 520, 500, 480, 400, 430, 500, 490, 520, 540>>,
      !.afluencias_mensais = <<100000, 0, 320000, 250000, 36000, 0, 290000, 550, 208000, 0, 400000, 850>> ]

\* a reservoir whose full volume is worth less than a month at p_hidro_max
Medio ==
    [ Fonte EXCEPT !.nome = "Medio",
      !.capacidade_reservatorio = 150000,
      !.demandas_mensais = <<520, 510, 480, 450, 420, 400, 410, 430, 460, 490, 520, 540>>,
      !.afluencias_mensais = <<150000, 20000, 6000, 0, 400000, 5000, 150000, 0, 90000, 200000, 10000, 130000>> ]

\* the source's reservoir with months whose demand cannot be met
Seco ==
    [ Fonte EXCEPT !.nome = "Seco",
      !.demandas_mensais = <<520, 640, 480, 760, 420, 400, 640, 430, 460, 490, 700, 540>>,
      !.afluencias_mensais = <<0, 780, 0, 650, 0, 0, 500, 0, 650, 0, 800, 0>> ]

\* malformed parameter sets
HidroInvertido == [ Fonte EXCEPT !.nome = "HidroInvertido", !.p_hidro_min = 450 ]
CapacidadeNegativa == [ Fonte EXCEPT !.nome = "CapacidadeNegativa", !.capacidade_reservatorio = -5000 ]
DemandaBaixa ==
    [ Fonte EXCEPT !.nome = "DemandaBaixa",
      !.demandas_mensais = <<520, 510, 120, 450, 420, 400, 410, 430, 460, 490, 520, 540>> ]

Cenarios == {Fonte, Amplo, Medio, Seco}
CenariosMalformados == {HidroInvertido, CapacidadeNegativa, DemandaBaixa}

\* a feasible solve is allowed to end without success in the months idx < FalhaAte
FalhaAte == 2

VARIABLES
    cfg,            \* the parameter block, lines 21-68
    pc,             \* position in the function
    idx,            \* line 85: index of the month being processed (0-based)
    volume_atual,   \* line 72 / 180
    resultados,     \* line 71 / 164: the rows appended so far
    loc,            \* the loop body's locals (lines 86-123)
    res,            \* line 132: the OptimizeResult of the last minimize call
    wv              \* the water-value iteration around the annual pass

vars == <<cfg, pc, idx, volume_atual, resultados, loc, res, wv>>

\* lines 80-81, 95, 149-150: the operating volumes in MWh
VolumeMinMWh(c) == (c.volume_min * c.capacidade_reservatorio) \div 100
VolumeMaxMWh(c) == (c.volume_max * c.capacidade_reservatorio) \div 100
\* line 72
VolumeInicialMWh(c) == (c.volume_inicial * c.capacidade_reservatorio) \div 100

(***************************************************************************)
(* The month's hydro ceiling and box bounds                                *)
(***************************************************************************)
\* a variant that limits only the stored volume and adds the inflow in full
EnergiaDisponivelSoVolume(c, afluencia, volume) == afluencia + Min(volume, VolumeMaxMWh(c))

\* line 95: energia_disponivel = min(afluencia + volume_atual, volume_max * capacidade / 100)
EnergiaDisponivel(c, afluencia, volume) == Min(afluencia + volume, VolumeMaxMWh(c))

\* a variant that forgets the division by horas_mes
PHidroMaxDisponivelSemHoras(c, energia) == Min(Pot(c.p_hidro_max), energia * horas_mes)

\* line 98: p_hidro_max_disponivel = min(p_hidro_max, energia_disponivel / horas_mes)
PHidroMaxDisponivel(c, energia) == Min(Pot(c.p_hidro_max), energia)

\* a variant that uses the ceiling as the upper bound without the max
PHidroMaxBoundSemMax(c, disponivel) == disponivel

\* line 122: p_hidro_max_bound = max(p_hidro_min, p_hidro_max_disponivel)
PHidroMaxBound(c, disponivel) == Max(Pot(c.p_hidro_min), disponivel)

\* lines 117-119: x0; demanda * 0.6 and demanda * 0.4 are exact in the power unit
X0(c, demanda, disponivel) ==
    << Min(disponivel, (Pot(demanda) * 6) \div 10),
       Max(Pot(c.p_termo_min), (Pot(demanda) * 4) \div 10) >>

(***************************************************************************)
(* The single-month problem handed to minimize (lines 100-133)             *)
(***************************************************************************)
\* a variant that prices the first component of x instead of the second
objetivoSobreHidro(c, x) == x[1] * c.custo_termo

\* lines 100-103: objetivo(x) = p_termo * custo_termo
objetivo(c, x) == x[2] * c.custo_termo

\* lines 105-110: (p_hidro + p_termo) - demanda - coef_perda * (p_hidro + p_termo)^2,
\* for a total of P MW, multiplied by perda_den = 1 / coef_perda
restricao_balanco(c, demanda, P) == (P * c.perda_den) - (demanda * c.perda_den) - (P * P)

\* lines 112-114: limite_transmissao - (x[0] + x[1])
restricao_transmissao(c, P) == c.limite_transmissao - P

\* the 'eq' constraint on the 1 MW grid: residual >= 0 at P and < 0 one step below
Balanceado(c, demanda, P) ==
    /\ restricao_balanco(c, demanda, P) >= 0
    /\ P > 0 => restricao_balanco(c, demanda, P - 1) < 0

\* lines 126-129: the totals P (MW) that satisfy both constraints
Totais(c, demanda) ==
    { P \in 0..Max(0, c.limite_transmissao) :
        Balanceado(c, demanda, P) /\ restricao_transmissao(c, P) >= 0 }

\* line 123: Bounds([p_hidro_min, p_termo_min], [p_hidro_max_bound, p_termo_max])
DentroDosBounds(c, hi, x) ==
    /\ Pot(c.p_hidro_min) <= x[1] /\ x[1] <= hi
    /\ Pot(c.p_termo_min) <= x[2] /\ x[2] <= Pot(c.p_termo_max)

\* The feasible set is the part of the line p_hidro + p_termo = P inside the box;
\* the objective is linear, so its minimum over that segment is at one of the
\* segment's end points, which are among these four.
Vertices(c, demanda, hi) ==
    { x \in UNION { { <<Pot(c.p_hidro_min), Pot(P) - Pot(c.p_hidro_min)>>,
                      <<hi, Pot(P) - hi>>,
                      <<Pot(P) - Pot(c.p_termo_min), Pot(c.p_termo_min)>>,
                      <<Pot(P) - Pot(c.p_termo_max), Pot(c.p_termo_max)>> }
                    : P \in Totais(c, demanda) } :
        DentroDosBounds(c, hi, x) }

Otimos(c, demanda, hi) ==
    LET viaveis == Vertices(c, demanda, hi)
    IN  { x \in viaveis : \A y \in viaveis : objetivo(c, x) <= objetivo(c, y) }

Falha(x0) == [bound |-> TRUE, success |-> FALSE, x |-> x0, fun |-> 0]

\* lines 132-133: the results minimize(..., method='SLSQP') can return.  An
\* infeasible problem ends without success; a feasible one ends at the optimum,
\* or, where admitFalha, without success (iteration limit, line search).
minimize(c, demanda, x0, hi, admitFalha) ==
    LET otimos == Otimos(c, demanda, hi)
    IN  { [bound |-> TRUE, success |-> TRUE, x |-> x, fun |-> objetivo(c, x)] : x \in otimos }
        \cup (IF otimos = {} \/ admitFalha THEN {Falha(x0)} ELSE {})

(***************************************************************************)
(* Reservoir balance, lines 144-150                                        *)
(***************************************************************************)
\* line 145: energia_hidro_mes = p_hidro_otimo * horas_mes (MWh; exact in the unit)
EnergiaHidroMes(p_hidro) == p_hidro

\* a variant that limits the volume from above only
LimitarSemMin(c, volume) == Min(VolumeMaxMWh(c), volume)

\* lines 149-150: max(volume_min_mwh, min(volume_max_mwh, volume_novo))
Limitar(c, volume) == Max(VolumeMinMWh(c), Min(VolumeMaxMWh(c), volume))

\* a variant that leaves the inflow out of the balance
VolumeNovoSemAfluencia(c, volume, afluencia, p_hidro) ==
    Limitar(c, volume - EnergiaHidroMes(p_hidro))

\* lines 148-150
VolumeNovo(c, volume, afluencia, p_hidro) ==
    Limitar(c, volume + afluencia - EnergiaHidroMes(p_hidro))

(***************************************************************************)
(* The annual pass, lines 70-185, and the summary, lines 186-229           *)
(***************************************************************************)
SemLocais ==
    [demanda |-> 0, afluencia |-> 0, energia_disponivel |-> 0,
     p_hidro_max_disponivel |-> 0, x0 |-> <<0, 0>>, p_hidro_max_bound |-> 0]

SemRes == [bound |-> FALSE, success |-> FALSE, x |-> <<0, 0>>, fun |-> 0]

SemIteracao ==
    [estado |-> "ITERATING", iteracao |-> 0, politica |-> "flat", tolerancia |-> 0,
     valor_agua |-> [i \in 1..NumMeses |-> 0], delta |-> 0]

\* lines 70-72
Inicio(c) ==
    /\ cfg = c
    /\ pc = "loop"
    /\ idx = 0
    /\ volume_atual = VolumeInicialMWh(c)
    /\ resultados = <<>>
    /\ loc = SemLocais
    /\ res = SemRes

Init == (\E c \in Cenarios : Inicio(c)) /\ wv = SemIteracao

\* lines 86-123: the locals of one pass through the loop body
Locais(c, demanda, afluencia, volume) ==
    LET energia == EnergiaDisponivel(c, afluencia, volume)
        disponivel == PHidroMaxDisponivel(c, energia)
    IN  [demanda |-> demanda, afluencia |-> afluencia,
         energia_disponivel |-> energia,
         p_hidro_max_disponivel |-> disponivel,
         x0 |-> X0(c, demanda, disponivel),
         p_hidro_max_bound |-> PHidroMaxBound(c, disponivel)]

\* lines 85-129: the loop takes the next month and sets up its problem
Preparar ==
    /\ pc = "loop"
    /\ idx < NumMeses
    /\ loc' = Locais(cfg, cfg.demandas_mensais[idx + 1],
                     cfg.afluencias_mensais[idx + 1], volume_atual)
    /\ pc' = "minimize"
    /\ UNCHANGED <<cfg, idx, volume_atual, resultados, res, wv>>

\* lines 132-133
Minimizar ==
    /\ pc = "minimize"
    /\ \E r \in minimize(cfg, loc.demanda, loc.x0, loc.p_hidro_max_bound, idx < FalhaAte) :
         res' = r
    /\ pc' = "branch"
    /\ UNCHANGED <<cfg, idx, volume_atual, resultados, loc, wv>>

\* lines 164-178: the row appended for a solved month (the derived columns
\* Perdas, Eficiencia and % Hidro are functions of the two powers)
Linha(c, i, l, r, volume, volume_novo) ==
    [Mes |-> i, Demanda |-> l.demanda, Afluencia |-> l.afluencia,
     P_Hidro |-> r.x[1], P_Termo |-> r.x[2],
     Geracao_Total |-> r.x[1] + r.x[2],
     Energia_Hidro |-> EnergiaHidroMes(r.x[1]),
     Volume_Inicial |-> volume, Volume_Final |-> volume_novo,
     Custo |-> r.fun]

\* lines 135-180: if res.success
Aceitar ==
    /\ pc = "branch"
    /\ res.success
    /\ LET volume_novo == VolumeNovo(cfg, volume_atual, loc.afluencia, res.x[1])
       IN  /\ resultados' = Append(resultados, Linha(cfg, idx, loc, res, volume_atual, volume_novo))
           /\ volume_atual' = volume_novo
    /\ idx' = idx + 1
    /\ pc' = "loop"
    /\ UNCHANGED <<cfg, loc, res, wv>>

\* a variant of the else branch that dispatches the seed x0 and records the month
RejeitarComSemente ==
    /\ pc = "branch"
    /\ ~res.success
    /\ LET semente == [res EXCEPT !.x = loc.x0, !.fun = objetivo(cfg, loc.x0)]
           volume_novo == VolumeNovo(cfg, volume_atual, loc.afluencia, loc.x0[1])
       IN  /\ resultados' = Append(resultados, Linha(cfg, idx, loc, semente, volume_atual, volume_novo))
           /\ volume_atual' = volume_novo
    /\ idx' = idx + 1
    /\ pc' = "loop"
    /\ UNCHANGED <<cfg, loc, res, wv>>

\* lines 182-184: else, the error message is printed and the loop goes on
Rejeitar ==
    /\ pc = "branch"
    /\ ~res.success
    /\ idx' = idx + 1
    /\ pc' = "loop"
    /\ UNCHANGED <<cfg, volume_atual, resultados, loc, res, wv>>

\* a variant that expects one month more than the tables hold
FimDoLacoUmAMais ==
    /\ pc = "loop"
    /\ idx = NumMeses + 1
    /\ pc' = "resumo"
    /\ UNCHANGED <<cfg, idx, volume_atual, resultados, loc, res, wv>>

\* line 85: the loop is exhausted
FimDoLaco ==
    /\ pc = "loop"
    /\ idx = NumMeses
    /\ pc' = "resumo"
    /\ UNCHANGED <<cfg, idx, volume_atual, resultados, loc, res, wv>>

\* lines 186-229: the summary reads the columns of the data frame; a frame built
\* from no rows has no columns and the first column access raises KeyError
Resumo ==
    /\ pc = "resumo"
    /\ pc' = IF resultados = <<>> THEN "raised" ELSE "done"
    /\ UNCHANGED <<cfg, idx, volume_atual, resultados, loc, res, wv>>

Next == Preparar \/ Minimizar \/ Aceitar \/ Rejeitar \/ FimDoLaco \/ Resumo

Spec == Init /\ [][Next]_vars

(***************************************************************************)
(* The same function over parameter blocks that include malformed ones     *)
(***************************************************************************)
InitCfg == (\E c \in Cenarios \cup CenariosMalformados : Inicio(c)) /\ wv = SemIteracao

SpecCfg == InitCfg /\ [][Next]_vars

(***************************************************************************)
(* The single-month solve on its own: the call of lines 132-133 over a     *)
(* range of demands, inflows and stored volumes                            *)
(***************************************************************************)
DemandasTeste == { 150 + (10 * k) : k \in 0..60 }
AfluenciasTeste == { 0, 6000, 100000, 400000 }
VolumesTeste(c) == { VolumeMinMWh(c), VolumeInicialMWh(c), VolumeMaxMWh(c) }

InitMin ==
    \E c \in {Fonte, Amplo, Medio}, d \in DemandasTeste, a \in AfluenciasTeste,
       i \in {0, NumMeses - 1} :
      \E v \in VolumesTeste(c) :
        /\ cfg = c
        /\ pc = "minimize"
        /\ idx = i
        /\ volume_atual = v
        /\ resultados = <<>>
        /\ loc = Locais(c, d, a, v)
        /\ res = SemRes
        /\ wv = SemIteracao

NextMin == Minimizar

SpecMin == InitMin /\ [][NextMin]_vars

(***************************************************************************)
(* Water-value iteration around the annual pass.  The source file runs the *)
(* pass once (lines 231-232); the outer iteration is modelled from the     *)
(* design document, section 4.4.  Water values and the tolerance are held  *)
(* multiplied by the usable volume range, so that the storage ratio is     *)
(* exact.                                                                  *)
(***************************************************************************)
MaxIteracoes == 3

\* efficiencyFactor = 1 / EficienciaDen of the flat update
EficienciaDen == 2

Tolerancias == {0, 1}

Abs(a) == IF a < 0 THEN -a ELSE a

FaixaUtil(c) == VolumeMaxMWh(c) - VolumeMinMWh(c)

\* the volume after month i (0-based): the final volume of the last row of a
\* month <= i, the initial volume when there is none
VolumeApos(c, linhas, i) ==
    LET ate == { k \in 1..Len(linhas) : linhas[k].Mes <= i }
    IN  IF ate = {} THEN VolumeInicialMWh(c)
        ELSE linhas[CHOOSE k \in ate : \A j \in ate : j <= k].Volume_Final

\* (storageAfter - volumeMin) limited to [0, volumeMax - volumeMin]
RazaoArmazenamento(c, linhas, i) ==
    Max(0, Min(FaixaUtil(c), VolumeApos(c, linhas, i) - VolumeMinMWh(c)))

\* step 2: the new water-value vector (1-based; entry k is month k - 1)
NovoValorAgua(c, w, linhas) ==
    [ k \in 1..NumMeses |->
        IF w.politica = "flat"
        THEN IF k < NumMeses THEN (c.custo_termo * FaixaUtil(c)) \div EficienciaDen
             ELSE w.valor_agua[k]
        ELSE IF k = 1 THEN w.valor_agua[k]
             ELSE c.custo_termo * (FaixaUtil(c) - RazaoArmazenamento(c, linhas, k - 2)) ]

\* step 3: delta = max over the months of |new - old|
Delta(novo, velho) ==
    CHOOSE d \in { Abs(novo[k] - velho[k]) : k \in 1..NumMeses } :
        \A k \in 1..NumMeses : Abs(novo[k] - velho[k]) <= d

\* step 4: delta < tolerance (and, for the shadow-price update, not on the first pass)
Convergiu(c, w, delta) ==
    /\ delta < w.tolerancia * FaixaUtil(c)
    /\ w.politica = "ratio" => w.iteracao >= 1

InitWV ==
    \E c \in {Fonte, Seco}, pol \in {"flat", "ratio"}, tol \in Tolerancias :
        /\ Inicio(c)
        /\ wv = [SemIteracao EXCEPT !.politica = pol, !.tolerancia = tol]

\* steps 2-5, taken when the pass has gone through its twelve months
Atualizar ==
    /\ pc = "resumo"
    /\ wv.estado = "ITERATING"
    /\ LET novo == NovoValorAgua(cfg, wv, resultados)
           delta == Delta(novo, wv.valor_agua)
           feitas == wv.iteracao + 1
       IN  IF Convergiu(cfg, wv, delta)
           THEN /\ wv' = [wv EXCEPT !.estado = "CONVERGED", !.iteracao = feitas, !.delta = delta]
                /\ pc' = "done"
                /\ UNCHANGED <<idx, volume_atual, resultados>>
           ELSE IF feitas >= MaxIteracoes
           THEN /\ wv' = [wv EXCEPT !.estado = "EXHAUSTED", !.iteracao = feitas,
                                    !.delta = delta, !.valor_agua = novo]
                /\ pc' = "done"
                /\ UNCHANGED <<idx, volume_atual, resultados>>
           ELSE /\ wv' = [wv EXCEPT !.iteracao = feitas, !.delta = delta, !.valor_agua = novo]
                /\ pc' = "loop"
                /\ idx' = 0
                /\ volume_atual' = VolumeInicialMWh(cfg)
                /\ resultados' = <<>>
    /\ UNCHANGED <<cfg, loc, res>>

NextWV == Preparar \/ Minimizar \/ Aceitar \/ Rejeitar \/ FimDoLaco \/ Atualizar

\* the program is sequential: whenever it has a next step it takes it
SpecWV == InitWV /\ [][NextWV]_vars /\ WF_vars(NextWV)

(***************************************************************************)
(* Properties                                                              *)
(***************************************************************************)
Linhas == 1..Len(resultados)

\* the minimize call of the current month has its problem set up
ProblemaMontado == pc \in {"minimize", "branch"}

\* the volume a row's balance gives before it is limited
VolumeBruto(l) == l.Volume_Inicial + l.Afluencia - l.P_Hidro

\* C1: at every observation point of the pass (the initial volume, and the
\* volume before and after each solved month) the reservoir volume lies in
\* [volume_min, volume_max] of the capacity.
C1_VolumeDentroDosLimites ==
    /\ VolumeMinMWh(cfg) <= volume_atual /\ volume_atual <= VolumeMaxMWh(cfg)
    /\ \A k \in Linhas :
         /\ VolumeMinMWh(cfg) <= resultados[k].Volume_Inicial
         /\ resultados[k].Volume_Inicial <= VolumeMaxMWh(cfg)
         /\ VolumeMinMWh(cfg) <= resultados[k].Volume_Final
         /\ resultados[k].Volume_Final <= VolumeMaxMWh(cfg)

\* C1 witness: one pass in which the balance fell below the minimum in one
\* month and rose above the maximum in another
C1_Witness ==
    /\ \E k \in Linhas : VolumeBruto(resultados[k]) < VolumeMinMWh(cfg)
    /\ \E k \in Linhas : VolumeBruto(resultados[k]) > VolumeMaxMWh(cfg)

C3_DespachoDentroDoTeto ==
    (pc = "branch" /\ res.success) =>
        /\ Pot(cfg.p_hidro_min) <= res.x[1]
        /\ res.x[1] <= loc.p_hidro_max_disponivel
        /\ Pot(cfg.p_termo_min) <= res.x[2]
        /\ res.x[2] <= Pot(cfg.p_termo_max)
        /\ res.x[1] <= volume_atual + loc.afluencia

C7_TetoNoMinimo ==
    (ProblemaMontado /\ loc.p_hidro_max_disponivel <= Pot(cfg.p_hidro_min)) =>
        /\ loc.p_hidro_max_bound = Pot(cfg.p_hidro_min)
        /\ (pc = "branch" /\ res.success) => res.x[1] = Pot(cfg.p_hidro_min)
        /\ (\E P \in Totais(cfg, loc.demanda) :
               /\ Pot(cfg.p_termo_min) <= Pot(P) - Pot(cfg.p_hidro_min)
               /\ Pot(P) - Pot(cfg.p_hidro_min) <= Pot(cfg.p_termo_max))
           => /\ \E r \in minimize(cfg, loc.demanda, loc.x0, loc.p_hidro_max_bound, FALSE) :
                    r.success
              /\ (pc = "branch" /\ idx >= FalhaAte) => res.success

\* C7 witness: a solved month whose ceiling was strictly below p_hidro_min, in
\* a pass that also solved a month whose ceiling was exactly p_hidro_min
C7_Witness ==
    /\ pc = "branch" /\ res.success /\ idx >= FalhaAte
    /\ loc.p_hidro_max_disponivel < Pot(cfg.p_hidro_min)
    /\ \E k \in Linhas :
         Min(resultados[k].Volume_Inicial + resultados[k].Afluencia, VolumeMaxMWh(cfg))
           = Pot(cfg.p_hidro_min)

\* C9 as stated: the ceiling is min(p_hidro_max, (inflow + min(volume,
\* volume_max)) / horas_mes): only the stored volume is limited
C9_TetoLimitaSoVolume ==
    ProblemaMontado =>
        loc.p_hidro_max_disponivel =
            Min(Pot(cfg.p_hidro_max),
                loc.afluencia + Min(volume_atual, VolumeMaxMWh(cfg)))

\* C9 amended: the ceiling is min(p_hidro_max, min(inflow + volume,
\* volume_max) / horas_mes): the sum of stored volume and inflow is limited
\* to volume_max.
C9_TetoLimitaSoma ==
    ProblemaMontado =>
        LET soma == cfg.afluencias_mensais[idx + 1] + volume_atual
            energia == IF soma > VolumeMaxMWh(cfg) THEN VolumeMaxMWh(cfg) ELSE soma
        IN  /\ loc.energia_disponivel = energia
            /\ loc.p_hidro_max_disponivel =
                 IF energia > Pot(cfg.p_hidro_max) THEN Pot(cfg.p_hidro_max) ELSE energia

\* C9 witness: a month whose inflow plus stored volume exceeds volume_max
\* while volume_max is worth less than a month at p_hidro_max
C9_Witness ==
    /\ ProblemaMontado
    /\ loc.afluencia + volume_atual > VolumeMaxMWh(cfg)
    /\ VolumeMaxMWh(cfg) < Pot(cfg.p_hidro_max)
    /\ volume_atual >= VolumeMinMWh(cfg) /\ volume_atual <= VolumeMaxMWh(cfg)

\* C10: with the source's parameters the ceiling is below p_hidro_min in every
\* month, every solved month dispatches exactly p_hidro_min (50 MW) and ends
\* at volume_min (1000 MWh), and once a month has been solved the volume stays
\* at volume_min for the rest of the pass.
C10_FonteFicaNoVolumeMinimo ==
    cfg = Fonte =>
        /\ ProblemaMontado => loc.p_hidro_max_disponivel < Pot(50)
        /\ \A k \in Linhas :
             /\ resultados[k].P_Hidro = Pot(50)
             /\ resultados[k].Volume_Final = 1000
        /\ resultados # <<>> => volume_atual = 1000

\* C10 witness: the source's pass at its end, with the first month solved from
\* the initial 2500 MWh and a later month failed
C10_Witness ==
    /\ cfg = Fonte /\ pc = "done"
    /\ resultados[1].Mes = 0 /\ resultados[1].Volume_Inicial = 2500
    /\ Len(resultados) < NumMeses
    /\ volume_atual = 1000

\* a parameter block the design document calls malformed
Malformada(c) ==
    \/ c.p_hidro_min > c.p_hidro_max
    \/ c.capacidade_reservatorio < 0
    \/ \E m \in 1..NumMeses : c.demandas_mensais[m] < c.p_hidro_min + c.p_termo_min

\* C6: with a malformed parameter block the run fails before minimize is
\* called for any month, so no OptimizeResult is ever bound.
C6_MalformadaNaoChegaAoSolver == Malformada(cfg) => ~res.bound

\* C8 as stated: every successful solve puts hydro at the upper bound of its
\* box and thermo at the remainder that meets the balance, at cost
\* custo_termo * thermo; for demand 500 and the box [50, 400] hydro is 400 MW
C8_HidroNoLimiteSuperior ==
    (pc = "branch" /\ res.success) =>
        /\ res.x[1] = loc.p_hidro_max_bound
        /\ \E P \in 0..cfg.limite_transmissao :
             Balanceado(cfg, loc.demanda, P) /\ res.x[1] + res.x[2] = Pot(P)
        /\ res.fun = cfg.custo_termo * res.x[2]
        /\ (loc.demanda = 500 /\ loc.p_hidro_max_bound = Pot(400)) => res.x[1] = Pot(400)

\* C8 amended: every successful solve puts hydro at the upper bound of its box
\* when the remainder left for thermo is at least p_termo_min, and otherwise
\* puts thermo at p_termo_min and hydro at the remainder; the two sum to the
\* total that meets the balance, the cost is custo_termo * thermo, and for
\* demand 500 and the box [50, 400] hydro is 400 MW (thermo 128 MW on the grid).
C8_HidroNoLimiteOuTermoNoMinimo ==
    (pc = "branch" /\ res.success) =>
        /\ \E P \in 0..cfg.limite_transmissao :
             /\ Balanceado(cfg, loc.demanda, P)
             /\ res.x[1] + res.x[2] = Pot(P)
             /\ IF Pot(P) - loc.p_hidro_max_bound >= Pot(cfg.p_termo_min)
                THEN res.x[1] = loc.p_hidro_max_bound
                ELSE res.x[2] = Pot(cfg.p_termo_min)
        /\ res.fun = cfg.custo_termo * res.x[2]
        /\ (loc.demanda = 500 /\ loc.p_hidro_max_bound = Pot(400)) =>
               res.x = <<Pot(400), Pot(128)>>

\* C8 witness: the solved example, demand 500 with the hydro box [50, 400] MW
C8_Witness ==
    /\ pc = "branch" /\ res.success
    /\ loc.demanda = 500
    /\ loc.p_hidro_max_bound = Pot(400)
    /\ cfg.p_hidro_min = 50 /\ cfg.p_termo_min = 100 /\ cfg.p_termo_max = 600
    /\ cfg.limite_transmissao = 800 /\ cfg.perda_den = 10000
    /\ res.fun = 50 * res.x[2]

Terminal == wv.estado \in {"CONVERGED", "EXHAUSTED"}

\* the steps a run can still take: three per month left in this pass and in
\* every later pass, and one at the end of each pass
PassosPorPasse == (3 * NumMeses) + 2
PassosNoPasse ==
    CASE pc = "loop" -> (3 * (NumMeses - idx)) + 2
      [] pc = "minimize" -> (3 * (NumMeses - idx)) + 1
      [] pc = "branch" -> 3 * (NumMeses - idx)
      [] pc = "resumo" -> 1
      [] OTHER -> 0
PassosRestantes ==
    IF Terminal THEN 0
    ELSE ((MaxIteracoes - wv.iteracao - 1) * PassosPorPasse) + PassosNoPasse + 1

====
